---- MODULE Spec2Model ----
(***************************************************************************)
(* The frePPLe XML exchange endpoint of the Odoo connector                 *)
(* (contrib/odoo/addons_v9/controllers/frepplexml.py).                     *)
(*                                                                         *)
(* Odoo creates one XMLController object and binds the route /frepple/xml  *)
(* to its method xml; the threaded server calls that method from several   *)
(* request threads.  The attribute self.user is therefore shared by all    *)
(* requests in flight, everything else in the handler is local to a        *)
(* request.  A thread handles one request at a time, from idle to          *)
(* returned.                                                               *)
(*                                                                         *)
(* A field of the HTTP request is drawn when the handler first reads it:   *)
(* the request never changes while it is handled, so this gives the same   *)
(* runs as drawing the whole request on arrival.                           *)
(***************************************************************************)
EXTENDS Integers, Sequences, FiniteSets, TLC

\* ------------------------------------------------------------------ values

\* Python's None, for values that are strings otherwise.
None == "<None>"

\* An optional value that is not a string: <<>> is None, <<x>> is x.
Nothing == <<>>
Some(x) == <<x>>

\* The request threads of the server.
Threads == {"t1", "t2"}

\* Largest number of fragments one exporter run yields.
MaxChunks == 2

\* Python truth of a string-or-None value.
Truthy(s) == s # None /\ s # ""

\* ------------------------------------------------------------ environment

\* db_monodb(): the database of a single-database installation.
db_monodb == "db1"

\* The users the credential service knows: (database, login, password).
\* Logins and passwords are sequences of characters.
Accounts == { <<"db1", <<"a">>, <<"p">> >>,
              <<"db1", <<"b">>, <<"q">> >> }

\* The company directory: name and signing secret.
Companies == { [name |-> "c1", webtoken_key |-> "k1"],
               [name |-> "c2", webtoken_key |-> "k2"] }

\* ---------------------------------------------------- what a client sends

Methods == {"GET", "POST", "PUT"}

DatabaseArgs == {None, "db1"}

LanguageArgs == {None, "fr"}

\* An Authorization header value is a sequence of words and single spaces.
HeaderValues ==
  { <<"Basic">>,                          \* no space at all
    <<"Bearer", " ", "YTpw">>,            \* another scheme
    <<"Basic", " ", "YQ">>,               \* not base64 (incorrect padding)
    <<"Basic", " ", "YXA=">>,             \* "ap": no colon
    <<"Basic", " ", "OnE=">>,             \* ":q": empty user
    <<"Basic", " ", "YTo=">>,             \* "a:": empty password
    <<"Basic", " ", "YTpx">>,             \* "a:q": wrong password
    <<"BASIC", " ", " ", "YTpw", " ">>,   \* "a:p", upper case and padded
    <<"Basic", " ", "Yjpx">> }            \* "b:q"

\* The headers of a request: a set of (name, value) pairs.
HeaderSets == {{}} \cup { {<<"authorization", v>>} : v \in HeaderValues }

CompanyArgs == {None, "c1", "c2", "C1"}

ModeArgs == {Nothing, Some(<<"2">>), Some(<<"x">>)}

\* A signed token as the client sends it in the form field webtoken.
Sign(alg, payload, key) == <<alg, payload, key>>

Jws(alg, payload, key) ==
  [form |-> "jws", alg |-> alg, payload |-> payload, sig |-> Sign(alg, payload, key)]

Webtokens ==
  { [form |-> "absent", alg |-> "", payload |-> {}, sig |-> <<>>],
    [form |-> "malformed", alg |-> "", payload |-> {}, sig |-> <<>>],
    Jws("HS256", {<<"user", <<"a">> >>}, "k1"),
    Jws("HS256", {<<"user", <<"b">> >>}, "k1"),
    Jws("HS256", {<<"user", <<"a">> >>}, "k2"),
    Jws("HS256", {}, "k1"),
    Jws("HS512", {<<"user", <<"a">> >>}, "k1") }

\* What the exporter does: its constructor raises, its run raises, or the run
\* yields text fragments.
Chunks == {"<plan>", "</plan>"}

ChunkSeqs == UNION { [1..n -> Chunks] : n \in 0..MaxChunks }

ExporterRuns ==
  { [raises |-> "init", detail |-> "KeyError: company", chunks |-> <<>>],
    [raises |-> "run", detail |-> "KeyError: product", chunks |-> <<>>] }
  \cup { [raises |-> "no", detail |-> "", chunks |-> cs] : cs \in ChunkSeqs }

\* What a run of the importer does: it raises, or returns a text.
ImporterRuns ==
  { [raises |-> "init", detail |-> "ValueError: mode", text |-> ""],
    [raises |-> "run", detail |-> "ParseError: line 1", text |-> ""],
    [raises |-> "no", detail |-> "", text |-> "imported"] }

\* --------------------------------------------------------- pure functions

\* str.split(sep, 1): the parts around the first sep, one part when there is none.
split1(s, sep) ==
  IF \E i \in 1..Len(s) : s[i] = sep
  THEN LET i == CHOOSE k \in 1..Len(s) : s[k] = sep /\ \A j \in 1..(k-1) : s[j] # sep
       IN  << SubSeq(s, 1, i - 1), SubSeq(s, i + 1, Len(s)) >>
  ELSE << s >>

\* str.lower() of a scheme word.
lower(w) ==
  CASE w = "Basic"  -> "basic"
    [] w = "BASIC"  -> "basic"
    [] w = "Bearer" -> "bearer"
    [] OTHER        -> w

\* str.strip(): leading and trailing spaces removed.
RECURSIVE lstrip(_)
lstrip(s) == IF s # <<>> /\ Head(s) = " " THEN lstrip(Tail(s)) ELSE s

RECURSIVE rstrip(_)
rstrip(s) ==
  IF s # <<>> /\ s[Len(s)] = " " THEN rstrip(SubSeq(s, 1, Len(s) - 1)) ELSE s

strip(s) == rstrip(lstrip(s))

\* str.decode('base64') of the credentials word: the decoded characters, or an
\* error for a word that is not base64.  The empty string decodes to itself.
b64decode(s) ==
  CASE s = <<>>       -> [ok |-> TRUE,  text |-> <<>>]
    [] s = <<"YTpw">> -> [ok |-> TRUE,  text |-> <<"a", ":", "p">>]
    [] s = <<"Yjpx">> -> [ok |-> TRUE,  text |-> <<"b", ":", "q">>]
    [] s = <<"YTpx">> -> [ok |-> TRUE,  text |-> <<"a", ":", "q">>]
    [] s = <<"OnE=">> -> [ok |-> TRUE,  text |-> <<":", "q">>]
    [] s = <<"YTo=">> -> [ok |-> TRUE,  text |-> <<"a", ":">>]
    [] s = <<"YXA=">> -> [ok |-> TRUE,  text |-> <<"a", "p">>]
    [] OTHER          -> [ok |-> FALSE, text |-> <<>>]

\* Lines 44-50 of authenticate up to the assignment of self.user: the user and
\* password the header carries, or the exception raised before the assignment.
ParseAuthorization(headers) ==
  LET fail(msg) == [ok |-> FALSE, err |-> msg, user |-> <<>>, password |-> <<>>]
  IN
  IF ~ \E h \in headers : h[1] = "authorization"
  THEN fail("No authentication header")
  ELSE
    LET value == (CHOOSE h \in headers : h[1] = "authorization")[2]
        parts == split1(value, " ")
    IN
    IF Len(parts) # 2 THEN fail("need more than 1 value to unpack")
    ELSE
      LET authmeth == parts[1]
          auth     == parts[2]
      IN
      IF [i \in 1..Len(authmeth) |-> lower(authmeth[i])] # <<"basic">>
      THEN fail("Unknown authentication method")
      ELSE
        LET decoded == b64decode(strip(auth)) IN
        IF ~ decoded.ok THEN fail("Incorrect padding")
        ELSE
          LET creds == split1(decoded.text, ":") IN
          IF Len(creds) # 2 THEN fail("need more than 1 value to unpack")
          ELSE [ok |-> TRUE, err |-> "", user |-> creds[1], password |-> creds[2]]

\* req.session.authenticate(database, login, password): the uid, 0 when refused.
SessionAuthenticate(database, login, password) ==
  IF <<database, login, password>> \in Accounts
  THEN IF login = <<"a">> THEN 1 ELSE 2
  ELSE 0

\* FindCompany falling back to some company when the name matches none.
FindCompany_Fallback(company_name) ==
  IF \E c \in Companies : c.name = company_name
  THEN Some(CHOOSE c \in Companies : c.name = company_name)
  ELSE Some(CHOOSE c \in Companies : TRUE)

\* m.search([('name', '=', company_name)]) and the loop over m.browse(...):
\* the last company with exactly that name, Nothing when there is none.
FindCompany(company_name) ==
  IF \E c \in Companies : c.name = company_name
  THEN Some(CHOOSE c \in Companies : c.name = company_name)
  ELSE Nothing

\* jwt.decode(webtoken, key, algorithms=[...]): the payload, or an exception.
jwt_decode(webtoken, key, algorithms) ==
  IF webtoken.form # "jws"
  THEN [ok |-> FALSE, payload |-> {}]
  ELSE IF webtoken.alg \notin algorithms
  THEN [ok |-> FALSE, payload |-> {}]
  ELSE IF webtoken.sig # Sign(webtoken.alg, webtoken.payload, key)
  THEN [ok |-> FALSE, payload |-> {}]
  ELSE [ok |-> TRUE, payload |-> webtoken.payload]

\* dict.get(key, None) on a decoded payload.
dict_get(payload, key) ==
  IF \E p \in payload : p[1] = key
  THEN Some((CHOOSE p \in payload : p[1] = key)[2])
  ELSE Nothing

\* int(s) for a string of characters: the number, or ValueError.
Digit(c) ==
  CASE c = "0" -> 0 [] c = "1" -> 1 [] c = "2" -> 2 [] c = "3" -> 3 [] OTHER -> -1

RECURSIVE DigitsValue(_)
DigitsValue(s) ==
  IF s = <<>> THEN 0 ELSE 10 * DigitsValue(SubSeq(s, 1, Len(s) - 1)) + Digit(s[Len(s)])

py_int(s) ==
  IF s # <<>> /\ \A i \in 1..Len(s) : Digit(s[i]) >= 0
  THEN [ok |-> TRUE, int |-> DigitsValue(s)]
  ELSE [ok |-> FALSE, int |-> 0]

\* A mode value handed to a collaborator: an int, or the posted string as is.
IntMode(n) == [type |-> "int", int |-> n, str |-> <<>>]
StrMode(s) == [type |-> "str", int |-> 0, str |-> s]

\* ''.join(chunks)
RECURSIVE join(_)
join(chunks) == IF chunks = <<>> THEN "" ELSE Head(chunks) \o join(Tail(chunks))

\* -------------------------------------------------------------- responses

NoResponse == [kind |-> "none", status |-> 0, body |-> "", headers |-> {}]

\* werkzeug Response(body, status, headers)
Response(body, status, headers) ==
  [kind |-> "response", status |-> status, body |-> body, headers |-> headers]

\* req.make_response(body, headers): a 200 response.
make_response(body, headers) == Response(body, 200, headers)

\* raise InternalServerError(description=...)
InternalServerError(description) ==
  [kind |-> "raised", status |-> 500, body |-> description, headers |-> {}]

\* raise MethodNotAllowed(description)
MethodNotAllowed(description) ==
  [kind |-> "raised", status |-> 405, body |-> description, headers |-> {}]

\* The 401 of lines 75-78 and 113-116.
LoginChallenge ==
  Response("Login with Odoo user name and password", 401,
           { <<"WWW-Authenticate", "Basic realm=\"odoo\"">> })

NoCacheHeaders ==
  { <<"Cache-Control", "no-cache, no-store, must-revalidate">>,
    <<"Pragma", "no-cache">>,
    <<"Expires", "0">> }

ExportError ==
  "Error generating frePPLe XML data: check the Odoo log file for more details"

ImportError ==
  "Error processing data posted by frePPLe: check the Odoo log file for more details"

\* ------------------------------------------------------------------ state

VARIABLES
  self_user,  \* the attribute self.user of the one XMLController object
  pc,         \* where each thread is in xml()
  request,    \* the fields of the thread's HTTP request read so far
  frame,      \* the local variables of xml() and authenticate()
  session,    \* req.session of the thread's request
  log,        \* what the request wrote to the logger
  worker,     \* the exporter or importer the request constructed
  response,   \* what xml() returned or raised
  trace       \* history: what the request did, in order

xml_vars == <<self_user, pc, request, frame, session, log, worker, response, trace>>

\* The state of the Django admin site (freppledb/common/__init__.py).
VARIABLES
  objects,        \* the primary keys of the model's rows in each database
  logentries,     \* the LogEntry rows of each database, oldest first
  view_pc,        \* where each worker is in delete_view()
  view_request,   \* the request the worker handles
  view_obj,       \* the local variable obj of delete_view()
  view_txn,       \* the writes the worker's open transaction holds back
  view_response,  \* what delete_view() returned or raised
  view_trace      \* history: what the request did to the database

admin_vars == <<objects, logentries, view_pc, view_request, view_obj, view_txn,
                view_response, view_trace>>

vars == <<xml_vars, admin_vars>>

\* self.user before any request assigned it.
Unset == <<"<unset>">>

NoRequest ==
  [method |-> None, database |-> None, language |-> None, headers |-> {},
   company |-> None, webtoken |-> [form |-> "absent", alg |-> "", payload |-> {}, sig |-> <<>>],
   mode |-> Nothing]

NoFrame == [database |-> None, password |-> <<>>, company |-> Nothing]

NoSession == [db |-> None, uid |-> 0, login |-> <<>>, lang |-> None]

NoWorker ==
  [kind |-> "none", database |-> None, company_name |-> None, company |-> Nothing,
   mode |-> IntMode(0), runs |-> 0, chunks |-> <<>>, text |-> ""]

\* own_user: the user of the request's own Authorization header;
\* login: the user handed to session.authenticate; compared: the user
\* compared with the webtoken's claim; events: the steps taken, in order;
\* raised: the detail of the exception the exporter or importer raised.
NoTrace == [own_user |-> Nothing, login |-> Nothing, compared |-> Nothing,
            events |-> <<>>, raised |-> ""]

\* --------------------------------------------------- the admin site's data

\* The processes of the web server that serve admin requests.
Workers == {"w1", "w2"}

\* Largest number of LogEntry rows a database holds.
MaxLogEntries == 2

\* Largest number of breadcrumbs a session holds.
MaxCrumbs == 4

\* settings.DATABASES: the default database and one scenario.
Databases == {"default", "scenario1"}

\* django.db.DEFAULT_DB_ALIAS
DEFAULT_DB_ALIAS == "default"

\* The users: clerk may delete rows of the model but not their child rows,
\* guest may delete nothing.
Users == {"clerk", "guest"}

ModelDeleters == {"clerk"}

ChildDeleters == {}

\* The rows both databases start with: 1 stands alone, 2 has a child row
\* that is deleted with it, 3 is referenced by a row that protects it.
InitialObjects == {1, 2, 3}

WithChild == {2}

ProtectedObjects == {3}

\* The object_id of the URL: a row, or a key no row has.
ObjectIds == {1, 2, 3, 4}

\* The request: its method with request.POST (empty, or the confirmation).
RequestKinds ==
  { [method |-> "GET",  POST |-> {}],
    [method |-> "POST", POST |-> {}],
    [method |-> "POST", POST |-> {<<"post", "yes">>}] }

\* A breadcrumb: (title, html, url).
Crumb(i) == <<"title", "html", i>>

\* request.session: without the key crumbs, or with a trail of breadcrumbs.
Sessions ==
  {Nothing} \cup { Some([i \in 1..n |-> Crumb(i)]) : n \in 0..MaxCrumbs }

NoViewRequest ==
  [method |-> None, POST |-> {}, database |-> None, user |-> None,
   object_id |-> 0, crumbs |-> Nothing]

NoViewResponse == [kind |-> "none", what |-> "", location |-> 0]

\* existed: the row was in request.database when get_object read it;
\* writes: the writes the request made, in order; committed: the writes of
\* the request that are in the database, in order.
NoViewTrace ==
  [existed |-> FALSE, writes |-> <<>>, committed |-> <<>>]

AdminInit ==
  /\ objects = [d \in Databases |-> InitialObjects]
  /\ logentries = [d \in Databases |-> <<>>]
  /\ view_pc = [w \in Workers |-> "idle"]
  /\ view_request = [w \in Workers |-> NoViewRequest]
  /\ view_obj = [w \in Workers |-> Nothing]
  /\ view_txn = [w \in Workers |-> <<>>]
  /\ view_response = [w \in Workers |-> NoViewResponse]
  /\ view_trace = [w \in Workers |-> NoViewTrace]

Init ==
  /\ AdminInit
  /\ self_user = Unset
  /\ pc = [t \in Threads |-> "idle"]
  /\ request = [t \in Threads |-> NoRequest]
  /\ frame = [t \in Threads |-> NoFrame]
  /\ session = [t \in Threads |-> NoSession]
  /\ log = [t \in Threads |-> <<>>]
  /\ worker = [t \in Threads |-> NoWorker]
  /\ response = [t \in Threads |-> NoResponse]
  /\ trace = [t \in Threads |-> NoTrace]

\* ---------------------------------------------------------------- actions

\* The local variable database of xml() when authentication starts.
xml_database(method, database_arg) ==
  LET database == IF ~ Truthy(database_arg) THEN db_monodb ELSE database_arg
  IN  CASE method = "GET"  -> database_arg
        [] method = "POST" -> database_arg
        [] OTHER           -> database

\* MethodAllowed with the final else branch lost.
MethodAllowed_Any(m) == TRUE

\* The branches of lines 67 and 105: the methods xml() handles.
MethodAllowed(m) == m \in {"GET", "POST"}

\* A request arrives: xml() reads database, language and the method, sets
\* session.db, and raises MethodNotAllowed for a method other than GET and POST.
xml_dispatch(t) ==
  /\ pc[t] = "idle"
  /\ \E m \in Methods, db \in DatabaseArgs, lang \in LanguageArgs :
       /\ request' = [request EXCEPT ![t] =
            [NoRequest EXCEPT !.method = m, !.database = db, !.language = lang]]
       /\ IF MethodAllowed(m)
          THEN /\ frame' = [frame EXCEPT ![t].database = xml_database(m, db)]
               /\ session' = [session EXCEPT ![t].db = xml_database(m, db)]
               /\ pc' = [pc EXCEPT ![t] = "authenticate"]
               /\ UNCHANGED response
          ELSE /\ response' = [response EXCEPT ![t] =
                    MethodNotAllowed("Only GET and POST requests are accepted")]
               /\ pc' = [pc EXCEPT ![t] = "returned"]
               /\ UNCHANGED <<frame, session>>
  /\ UNCHANGED <<self_user, log, worker, trace>>

\* authenticate() raised e: the except clause logs a warning and returns the
\* challenge.
LoginFailed(t, e) ==
  /\ log' = [log EXCEPT ![t] = Append(@,
       [level |-> "warning",
        msg |-> IF request[t].method = "GET" THEN "Failed login attempt: %s"
                                             ELSE "Failed login attempt %s",
        exc |-> e])]
  /\ response' = [response EXCEPT ![t] = LoginChallenge]
  /\ pc' = [pc EXCEPT ![t] = "returned"]

\* authenticate(), lines 44-50: the header is parsed and the user it names is
\* stored in self.user.
authenticate_header(t) ==
  /\ pc[t] = "authenticate"
  /\ \E hs \in HeaderSets :
       LET parsed == ParseAuthorization(hs) IN
       /\ request' = [request EXCEPT ![t].headers = hs]
       /\ IF parsed.ok
          THEN /\ self_user' = parsed.user
               /\ frame' = [frame EXCEPT ![t].password = parsed.password]
               /\ trace' = [trace EXCEPT ![t].own_user = Some(parsed.user)]
               /\ pc' = [pc EXCEPT ![t] = "authenticate_check"]
               /\ UNCHANGED <<log, response>>
          ELSE /\ LoginFailed(t, parsed.err)
               /\ trace' = [trace EXCEPT ![t].events = Append(@, "auth_failed")]
               /\ UNCHANGED <<self_user, frame>>
  /\ UNCHANGED <<session, worker>>

\* authenticate(), lines 51-52: database, self.user and password must be set.
authenticate_check(t) ==
  /\ pc[t] = "authenticate_check"
  /\ IF ~ Truthy(frame[t].database) \/ self_user = <<>> \/ frame[t].password = <<>>
     THEN /\ LoginFailed(t, "Missing user, password or database")
          /\ trace' = [trace EXCEPT ![t].events = Append(@, "auth_failed")]
     ELSE /\ pc' = [pc EXCEPT ![t] = "authenticate_session"]
          /\ UNCHANGED <<log, response, trace>>
  /\ UNCHANGED <<self_user, request, frame, session, worker>>

\* The language override of lines 55-57.
SetLanguage(t, events) ==
  IF Truthy(request[t].language) THEN Append(events, "language") ELSE events

\* session_lang with the override written before the login was checked.
session_lang_Early(t, uid) ==
  IF Truthy(request[t].language) THEN request[t].language ELSE session[t].lang

\* Lines 53-57: session.context['lang'] after session.authenticate returned
\* uid; the override is written only when the login was accepted.
session_lang(t, uid) ==
  IF uid # 0 /\ Truthy(request[t].language)
  THEN request[t].language
  ELSE session[t].lang

\* authenticate(), lines 53-57: session.authenticate with self.user, then the
\* language override.
authenticate_session(t) ==
  /\ pc[t] = "authenticate_session"
  /\ LET uid == SessionAuthenticate(frame[t].database, self_user, frame[t].password) IN
     IF uid = 0
     THEN /\ LoginFailed(t, "Odoo authentication failed")
          /\ session' = [session EXCEPT ![t].login = self_user,
                                        ![t].lang = session_lang(t, uid)]
          /\ trace' = [trace EXCEPT ![t].login = Some(self_user),
                                    ![t].events = Append(@, "auth_failed")]
     ELSE /\ session' = [session EXCEPT
               ![t].uid = uid, ![t].login = self_user,
               ![t].lang = session_lang(t, uid)]
          /\ trace' = [trace EXCEPT ![t].login = Some(self_user),
               ![t].events = SetLanguage(t, Append(@, "auth_ok"))]
          /\ pc' = [pc EXCEPT ![t] =
               IF request[t].method = "GET" THEN "export" ELSE "company"]
          /\ UNCHANGED <<log, response>>
  /\ UNCHANGED <<self_user, request, frame, worker>>

\* xml(), lines 119-126: the company named in the form is looked up.
xml_company(t) ==
  /\ pc[t] = "company"
  /\ \E company_name \in CompanyArgs :
       LET company == FindCompany(company_name) IN
       /\ request' = [request EXCEPT ![t].company = company_name]
       /\ frame' = [frame EXCEPT ![t].company = company]
       /\ IF company = Nothing
          THEN /\ response' = [response EXCEPT ![t] =
                    Response("Invalid company name argument", 401, {})]
               /\ trace' = [trace EXCEPT ![t].events = Append(@, "company_failed")]
               /\ pc' = [pc EXCEPT ![t] = "returned"]
          ELSE /\ trace' = [trace EXCEPT ![t].events = Append(@, "company_ok")]
               /\ pc' = [pc EXCEPT ![t] = "webtoken"]
               /\ UNCHANGED response
  /\ UNCHANGED <<self_user, session, log, worker>>

\* The comparison of line 136: the token is refused when self.user differs
\* from its user claim.
UserMismatch(user, decoded) == Some(user) # dict_get(decoded, "user")

\* xml(), lines 129-139: the webtoken is decoded with the company's key and its
\* user claim compared with self.user.
xml_webtoken(t) ==
  /\ pc[t] = "webtoken"
  /\ \E webtoken \in Webtokens :
       LET company == frame[t].company[1]
           decoded == jwt_decode(webtoken, company.webtoken_key, {"HS256"})
           refused == ~ decoded.ok \/ UserMismatch(self_user, decoded.payload)
       IN
       /\ request' = [request EXCEPT ![t].webtoken = webtoken]
       /\ trace' = [trace EXCEPT
            ![t].compared = IF decoded.ok THEN Some(self_user) ELSE @,
            ![t].events = Append(@, IF refused THEN "webtoken_failed" ELSE "webtoken_ok")]
       /\ IF refused
          THEN /\ response' = [response EXCEPT ![t] =
                    Response("Incorrect or missing webtoken", 401, {})]
               /\ pc' = [pc EXCEPT ![t] = "returned"]
          ELSE /\ pc' = [pc EXCEPT ![t] = "import"]
               /\ UNCHANGED response
  /\ UNCHANGED <<self_user, frame, session, log, worker>>

\* CollaboratorFailed with the exception's text put in the description.
CollaboratorFailed_Leak(t, msg, detail, description) ==
  /\ log' = [log EXCEPT ![t] = Append(@,
       [level |-> "error", msg |-> msg, exc |-> detail])]
  /\ response' = [response EXCEPT ![t] = InternalServerError(detail)]

\* The except clauses of lines 102-104 and 157-159: the exception is logged
\* and InternalServerError raised with a fixed description.
CollaboratorFailed(t, msg, detail, description) ==
  /\ log' = [log EXCEPT ![t] = Append(@,
       [level |-> "error", msg |-> msg, exc |-> detail])]
  /\ response' = [response EXCEPT ![t] = InternalServerError(description)]

\* mode = int(kwargs.get('mode', 1))
export_mode(mode_arg) ==
  IF mode_arg = Nothing THEN [ok |-> TRUE, int |-> 1] ELSE py_int(mode_arg[1])

\* xml(), lines 85-104: the exporter is constructed and run, its fragments
\* joined into the response.
xml_export(t) ==
  /\ pc[t] = "export"
  /\ \E company_name \in CompanyArgs, mode_arg \in ModeArgs, xp \in ExporterRuns :
       LET mode == export_mode(mode_arg)
           constructed == [kind |-> "exporter", database |-> frame[t].database,
                           company_name |-> company_name, company |-> Nothing,
                           mode |-> IntMode(mode.int), runs |-> 0,
                           chunks |-> <<>>, text |-> ""]
       IN
       /\ request' = [request EXCEPT ![t].company = company_name, ![t].mode = mode_arg]
       /\ IF ~ mode.ok
          THEN /\ CollaboratorFailed(t, "Error generating frePPLe XML data",
                                     "ValueError: invalid literal for int()", ExportError)
               /\ trace' = [trace EXCEPT
                    ![t].raised = "ValueError: invalid literal for int()"]
               /\ UNCHANGED worker
          ELSE IF xp.raises = "init"
          THEN /\ CollaboratorFailed(t, "Error generating frePPLe XML data",
                                     xp.detail, ExportError)
               /\ trace' = [trace EXCEPT ![t].raised = xp.detail]
               /\ UNCHANGED worker
          ELSE /\ worker' = [worker EXCEPT ![t] =
                    [constructed EXCEPT !.runs = 1, !.chunks = xp.chunks]]
               /\ trace' = [trace EXCEPT ![t].events = Append(@, "exporter"),
                                         ![t].raised = xp.detail]
               /\ IF xp.raises = "run"
                  THEN CollaboratorFailed(t, "Error generating frePPLe XML data",
                                          xp.detail, ExportError)
                  ELSE /\ response' = [response EXCEPT ![t] =
                            make_response(join(xp.chunks),
                              { <<"Content-Type", "application/xml;charset=utf8">> }
                              \cup NoCacheHeaders)]
                       /\ UNCHANGED log
  /\ pc' = [pc EXCEPT ![t] = "returned"]
  /\ UNCHANGED <<self_user, frame, session>>

\* mode = req.httprequest.form.get('mode', 1)
import_mode(mode_arg) ==
  IF mode_arg = Nothing THEN IntMode(1) ELSE StrMode(mode_arg[1])

\* xml(), lines 142-159: the importer is constructed and run, its result
\* returned as text.
xml_import(t) ==
  /\ pc[t] = "import"
  /\ \E mode_arg \in ModeArgs, ip \in ImporterRuns :
       LET constructed == [kind |-> "importer", database |-> frame[t].database,
                           company_name |-> None, company |-> frame[t].company,
                           mode |-> import_mode(mode_arg), runs |-> 0,
                           chunks |-> <<>>, text |-> ""]
       IN
       /\ request' = [request EXCEPT ![t].mode = mode_arg]
       /\ IF ip.raises = "init"
          THEN /\ CollaboratorFailed(t, "Error processing data posted by frePPLe",
                                     ip.detail, ImportError)
               /\ trace' = [trace EXCEPT ![t].raised = ip.detail]
               /\ UNCHANGED worker
          ELSE /\ worker' = [worker EXCEPT ![t] =
                    [constructed EXCEPT !.runs = 1, !.text = ip.text]]
               /\ trace' = [trace EXCEPT ![t].events = Append(@, "importer"),
                                         ![t].raised = ip.detail]
               /\ IF ip.raises = "run"
                  THEN CollaboratorFailed(t, "Error processing data posted by frePPLe",
                                          ip.detail, ImportError)
                  ELSE /\ response' = [response EXCEPT ![t] =
                            make_response(ip.text,
                              { <<"Content-Type", "text/plain">> } \cup NoCacheHeaders)]
                       /\ UNCHANGED log
  /\ pc' = [pc EXCEPT ![t] = "returned"]
  /\ UNCHANGED <<self_user, frame, session>>

\* The response is sent; the thread is free for its next request.  self.user
\* keeps the value the last request gave it.
finish(t) ==
  /\ pc[t] = "returned"
  /\ pc' = [pc EXCEPT ![t] = "idle"]
  /\ request' = [request EXCEPT ![t] = NoRequest]
  /\ frame' = [frame EXCEPT ![t] = NoFrame]
  /\ session' = [session EXCEPT ![t] = NoSession]
  /\ log' = [log EXCEPT ![t] = <<>>]
  /\ worker' = [worker EXCEPT ![t] = NoWorker]
  /\ response' = [response EXCEPT ![t] = NoResponse]
  /\ trace' = [trace EXCEPT ![t] = NoTrace]
  /\ UNCHANGED self_user

Next ==
  \E t \in Threads :
    \/ xml_dispatch(t) /\ UNCHANGED admin_vars
    \/ authenticate_header(t) /\ UNCHANGED admin_vars
    \/ authenticate_check(t) /\ UNCHANGED admin_vars
    \/ authenticate_session(t) /\ UNCHANGED admin_vars
    \/ xml_company(t) /\ UNCHANGED admin_vars
    \/ xml_webtoken(t) /\ UNCHANGED admin_vars
    \/ xml_export(t) /\ UNCHANGED admin_vars
    \/ xml_import(t) /\ UNCHANGED admin_vars
    \/ finish(t) /\ UNCHANGED admin_vars

Spec == Init /\ [][Next]_vars

\* The same server when requests never overlap: a thread takes a step only
\* while every other thread is idle.
NextAlone ==
  \E t \in Threads :
    /\ \A u \in Threads \ {t} : pc[u] = "idle"
    /\ \/ xml_dispatch(t)
       \/ authenticate_header(t)
       \/ authenticate_check(t)
       \/ authenticate_session(t)
       \/ xml_company(t)
       \/ xml_webtoken(t)
       \/ xml_export(t)
       \/ xml_import(t)
       \/ finish(t)
    /\ UNCHANGED admin_vars

SpecAlone == Init /\ [][NextAlone]_vars

\* ------------------------------------------- the admin site's delete view

\* ModelAdmin.has_delete_permission(request, obj): the user's permission to
\* delete rows of the model.
has_delete_permission(user) == user \in ModelDeleters

\* ModelAdmin.get_object over queryset(request), which reads request.database:
\* the row with that key, Nothing (None) when there is none.
get_object(database, object_id) ==
  IF object_id \in objects[database] THEN Some(object_id) ELSE Nothing

\* get_deleted_objects([obj], opts, user, admin_site, using): the related
\* models the user may not delete, and the rows that protect obj.
get_deleted_objects(obj, user, using) ==
  [perms_needed |-> IF obj \in WithChild /\ user \notin ChildDeleters
                    THEN {"child"} ELSE {},
   protected    |-> IF obj \in ProtectedObjects THEN {"protector"} ELSE {}]

\* The LogEntry of log_deletion.
DeletionLogEntry(user, obj, object_repr) ==
  [user_id |-> user, content_type |-> "item", object_id |-> obj,
   object_repr |-> object_repr, action_flag |-> "DELETION"]

\* force_unicode(obj)
force_unicode(obj) == <<"item", obj>>

\* One write applied to the rows and LogEntry rows of a database.
ApplyObjects(rows, write) ==
  IF write.op = "delete" THEN rows \ {write.obj} ELSE rows

ApplyLog(entries, write) ==
  IF write.op = "log" THEN Append(entries, write.entry) ELSE entries

RECURSIVE ApplyAllObjects(_, _)
ApplyAllObjects(rows, writes) ==
  IF writes = <<>> THEN rows
  ELSE ApplyAllObjects(ApplyObjects(rows, Head(writes)), Tail(writes))

RECURSIVE ApplyAllLog(_, _)
ApplyAllLog(entries, writes) ==
  IF writes = <<>> THEN entries
  ELSE ApplyAllLog(ApplyLog(entries, Head(writes)), Tail(writes))

\* The database transaction.commit_on_success manages: it names no database,
\* so it is the default one.
ManagedDatabase == DEFAULT_DB_ALIAS

\* A write to request.database: held in the transaction when the database is
\* the managed one, committed at once on any other.
Write(w, write) ==
  LET database == view_request[w].database IN
  IF database = ManagedDatabase
  THEN /\ view_txn' = [view_txn EXCEPT ![w] = Append(@, write)]
       /\ view_trace' = [view_trace EXCEPT ![w].writes = Append(@, write.op)]
       /\ UNCHANGED <<objects, logentries>>
  ELSE /\ objects' = [objects EXCEPT ![database] = ApplyObjects(@, write)]
       /\ logentries' = [logentries EXCEPT ![database] = ApplyLog(@, write)]
       /\ view_trace' = [view_trace EXCEPT ![w].writes = Append(@, write.op),
                                           ![w].committed = Append(@, write.op)]
       /\ UNCHANGED view_txn

\* delete_view() raises: commit_on_success rolls the managed database back.
ViewRaises(w, what) ==
  /\ view_response' = [view_response EXCEPT ![w] =
       [kind |-> "raised", what |-> what, location |-> 0]]
  /\ view_txn' = [view_txn EXCEPT ![w] = <<>>]
  /\ view_pc' = [view_pc EXCEPT ![w] = "returned"]

\* delete_view() returns: commit_on_success commits the managed database.
ViewReturns(w, resp) ==
  /\ view_response' = [view_response EXCEPT ![w] = resp]
  /\ objects' = [objects EXCEPT ![ManagedDatabase] = ApplyAllObjects(@, view_txn[w])]
  /\ logentries' = [logentries EXCEPT ![ManagedDatabase] = ApplyAllLog(@, view_txn[w])]
  /\ view_txn' = [view_txn EXCEPT ![w] = <<>>]
  /\ view_trace' = [view_trace EXCEPT ![w].committed =
       @ \o [i \in 1..Len(view_txn[w]) |-> view_txn[w][i].op]]
  /\ view_pc' = [view_pc EXCEPT ![w] = "returned"]

\* The requests in flight that may still write a LogEntry to the database.
InFlight(database) ==
  Cardinality({ w \in Workers :
    view_pc[w] # "idle" /\ view_request[w].database = database })

\* delete_view(), lines 222-233: the object is read from request.database,
\* the permission checked, then the object's existence.
delete_view_get(w) ==
  /\ view_pc[w] = "idle"
  /\ \E kind \in RequestKinds, database \in Databases, user \in Users,
        object_id \in ObjectIds :
       LET obj == get_object(database, object_id) IN
       /\ Len(logentries[database]) + InFlight(database) < MaxLogEntries
       /\ view_request' = [view_request EXCEPT ![w] =
            [method |-> kind.method, POST |-> kind.POST, database |-> database,
             user |-> user, object_id |-> object_id, crumbs |-> Nothing]]
       /\ view_obj' = [view_obj EXCEPT ![w] = obj]
       /\ view_trace' = [view_trace EXCEPT ![w].existed = obj # Nothing]
       /\ IF ~ has_delete_permission(user)
          THEN ViewRaises(w, "PermissionDenied")
          ELSE IF obj = Nothing
          THEN ViewRaises(w, "Http404")
          ELSE /\ view_pc' = [view_pc EXCEPT ![w] = "confirm"]
               /\ UNCHANGED <<view_txn, view_response>>
  /\ UNCHANGED <<objects, logentries>>
  /\ UNCHANGED xml_vars

\* log_deletion(request, object, object_repr): a DELETION LogEntry saved
\* using request.database.
log_deletion(w, obj, object_repr) ==
  Write(w, [op |-> "log", obj |-> obj,
            entry |-> DeletionLogEntry(view_request[w].user, obj, object_repr)])

\* delete_view(), lines 235-246 and 254-278: a request with POST data is
\* refused when perms_needed is not empty and logged otherwise; a request
\* without POST data gets the confirmation page.
delete_view_confirm(w) ==
  /\ view_pc[w] = "confirm"
  /\ LET obj == view_obj[w][1]
         found == get_deleted_objects(obj, view_request[w].user,
                                      view_request[w].database)
     IN
     IF view_request[w].POST # {}
     THEN IF found.perms_needed # {}
          THEN /\ ViewRaises(w, "PermissionDenied")
               /\ UNCHANGED <<objects, logentries, view_trace>>
          ELSE /\ log_deletion(w, obj, force_unicode(obj))
               /\ view_pc' = [view_pc EXCEPT ![w] = "delete"]
               /\ UNCHANGED view_response
     ELSE ViewReturns(w, [kind |-> "page",
            what |-> IF found.perms_needed # {} \/ found.protected # {}
                     THEN "Cannot delete" ELSE "Are you sure?",
            location |-> 0])
  /\ UNCHANGED <<view_request, view_obj>>
  /\ UNCHANGED xml_vars

\* ModelAdmin.delete_model(request, obj): obj.delete() on the database the
\* object was read from; a protected object raises ProtectedError.
delete_view_delete(w) ==
  /\ view_pc[w] = "delete"
  /\ LET obj == view_obj[w][1] IN
     IF obj \in ProtectedObjects
     THEN /\ ViewRaises(w, "ProtectedError")
          /\ UNCHANGED <<objects, logentries, view_trace>>
     ELSE /\ Write(w, [op |-> "delete", obj |-> obj,
                       entry |-> DeletionLogEntry("", obj, <<>>)])
          /\ view_pc' = [view_pc EXCEPT ![w] = "redirect"]
          /\ UNCHANGED view_response
  /\ UNCHANGED <<view_request, view_obj>>
  /\ UNCHANGED xml_vars

\* request.session['crumbs'][-3][2]: the url of the third-from-last
\* breadcrumb, or the KeyError or IndexError the lookup raises.
previous_crumb(crumbs) ==
  IF crumbs = Nothing THEN [ok |-> FALSE, what |-> "KeyError", url |-> 0]
  ELSE IF Len(crumbs[1]) < 3 THEN [ok |-> FALSE, what |-> "IndexError", url |-> 0]
  ELSE [ok |-> TRUE, what |-> "", url |-> crumbs[1][Len(crumbs[1]) - 2][3]]

\* delete_view(), lines 249-252: the redirect to the breadcrumb.
delete_view_redirect(w) ==
  /\ view_pc[w] = "redirect"
  /\ \E crumbs \in Sessions :
       LET target == previous_crumb(crumbs) IN
       /\ view_request' = [view_request EXCEPT ![w].crumbs = crumbs]
       /\ IF target.ok
          THEN ViewReturns(w, [kind |-> "redirect", what |-> "",
                               location |-> target.url])
          ELSE /\ ViewRaises(w, target.what)
               /\ UNCHANGED <<objects, logentries, view_trace>>
  /\ UNCHANGED view_obj
  /\ UNCHANGED xml_vars

\* The response is sent; the worker is free for its next request.
view_finish(w) ==
  /\ view_pc[w] = "returned"
  /\ view_pc' = [view_pc EXCEPT ![w] = "idle"]
  /\ view_request' = [view_request EXCEPT ![w] = NoViewRequest]
  /\ view_obj' = [view_obj EXCEPT ![w] = Nothing]
  /\ view_response' = [view_response EXCEPT ![w] = NoViewResponse]
  /\ view_trace' = [view_trace EXCEPT ![w] = NoViewTrace]
  /\ UNCHANGED <<objects, logentries, view_txn>>
  /\ UNCHANGED xml_vars

NextAdmin ==
  \E w \in Workers :
    \/ delete_view_get(w)
    \/ delete_view_confirm(w)
    \/ delete_view_delete(w)
    \/ delete_view_redirect(w)
    \/ view_finish(w)

SpecAdmin == Init /\ [][NextAdmin]_vars

\* ----------------------------------------------------------------- claims

\* The request of thread t took step e.
Did(t, e) == \E i \in DOMAIN trace[t].events : trace[t].events[i] = e

\* The user and password of the request's own Authorization header.
OwnCredentials(t) == ParseAuthorization(request[t].headers)

\* The request's own header names a user and password the database accepts.
OwnCredentialsValid(t, database) ==
  /\ OwnCredentials(t).ok
  /\ SessionAuthenticate(database, OwnCredentials(t).user, OwnCredentials(t).password) # 0

\* The request's webtoken verifies with its company's key under HS256 and
\* carries the user of the request's own Authorization header.
OwnWebtokenValid(t) ==
  /\ frame[t].company # Nothing
  /\ LET decoded == jwt_decode(request[t].webtoken,
                               frame[t].company[1].webtoken_key, {"HS256"})
     IN  decoded.ok /\ dict_get(decoded.payload, "user") = trace[t].own_user

\* C1: a POST that passed Basic authentication and named an existing company,
\* and whose webtoken is missing, malformed, not verifiable with the company's
\* key under HS256, or carries no user claim or another user than the
\* Basic-auth username, is answered 401 "Incorrect or missing webtoken" and no
\* importer is constructed.
C1_BadWebtokenRefused ==
  \A t \in Threads :
    ( /\ request[t].method = "POST"
      /\ Did(t, "webtoken_ok") \/ Did(t, "webtoken_failed")
      /\ ~ OwnWebtokenValid(t) )
    => /\ response[t] = Response("Incorrect or missing webtoken", 401, {})
       /\ worker[t].kind = "none"

\* C2: the username a POST compares with its webtoken's user claim is the
\* username of that request's own Authorization header, whatever other
\* requests are in flight.
C2_ComparesOwnUser ==
  \A t \in Threads :
    trace[t].compared # Nothing => trace[t].compared = trace[t].own_user

\* C3: a GET without a database parameter uses db_monodb() for session.db and
\* for authentication, so with credentials valid on that database it is
\* exported rather than rejected.
C3_GetDefaultsDatabase ==
  \A t \in Threads :
    ( /\ request[t].method = "GET"
      /\ ~ Truthy(request[t].database)
      /\ pc[t] = "returned"
      /\ OwnCredentialsValid(t, db_monodb) )
    => /\ session[t].db = db_monodb
       /\ worker[t].database = db_monodb
       /\ response[t] # LoginChallenge

\* The request's own Authorization header is missing or malformed, names an
\* empty user or password, or is refused by the target database.
OwnCredentialsBad(t) ==
  \/ ~ OwnCredentials(t).ok
  \/ OwnCredentials(t).user = <<>>
  \/ OwnCredentials(t).password = <<>>
  \/ ~ OwnCredentialsValid(t, frame[t].database)

\* C4: a GET or POST whose Authorization header is missing or malformed, has
\* an empty user or password, or whose credentials the target database
\* refuses, gets the 401 with the WWW-Authenticate: Basic challenge, and
\* neither exporter nor importer is run.
C4_BadCredentialsChallenged ==
  \A t \in Threads :
    ( /\ request[t].method \in {"GET", "POST"}
      /\ pc[t] \notin {"idle", "authenticate"}
      /\ OwnCredentialsBad(t) )
    => /\ pc[t] \in {"authenticate_check", "authenticate_session", "returned"}
       /\ pc[t] = "returned" => response[t] = LoginChallenge
       /\ worker[t].kind = "none"

\* The name is exactly the name of a company of the directory.
KnownCompanyName(name) == \E c \in Companies : c.name = name

\* C5 as stated: every POST whose company (an absent one included) matches no
\* known company name is answered 401 "Invalid company name argument", its
\* webtoken is not decoded and no importer is run.
C5_UnknownCompanyRefused ==
  \A t \in Threads :
    ( /\ request[t].method = "POST"
      /\ pc[t] = "returned"
      /\ ~ KnownCompanyName(request[t].company) )
    => /\ response[t] = Response("Invalid company name argument", 401, {})
       /\ trace[t].compared = Nothing
       /\ worker[t].kind = "none"

\* C5 amended: every POST that passed Basic authentication and whose company
\* (an absent one included) matches no known company name is answered 401
\* "Invalid company name argument"; its webtoken is neither read nor decoded
\* and no importer is run.
C5_AuthenticatedUnknownCompanyRefused ==
  \A t \in Threads :
    ( /\ request[t].method = "POST"
      /\ Did(t, "auth_ok")
      /\ pc[t] # "company"
      /\ ~ KnownCompanyName(request[t].company) )
    => /\ pc[t] = "returned"
       /\ response[t] = Response("Invalid company name argument", 401, {})
       /\ request[t].webtoken = NoRequest.webtoken
       /\ trace[t].compared = Nothing
       /\ ~ Did(t, "webtoken_ok") /\ ~ Did(t, "webtoken_failed")
       /\ worker[t].kind = "none"

\* An authenticated POST naming "C1", which differs in case from "c1", is
\* refused.
C5_Witness ==
  \E t \in Threads :
    /\ request[t].method = "POST"
    /\ Did(t, "auth_ok")
    /\ request[t].company = "C1"
    /\ pc[t] = "returned"
    /\ response[t] = Response("Invalid company name argument", 401, {})

\* C6: a GET with a database and credentials valid on it, whose exporter does
\* not raise, is answered 200 with content type application/xml;charset=utf8,
\* the joined fragments of the exporter as body and the cache-disabling
\* headers; no company or webtoken check is made.
C6_GetExported ==
  \A t \in Threads :
    ( /\ request[t].method = "GET"
      /\ pc[t] = "returned"
      /\ OwnCredentialsValid(t, request[t].database)
      /\ trace[t].raised = "" )
    => /\ worker[t].kind = "exporter"
       /\ worker[t].runs = 1
       /\ response[t] = Response(join(worker[t].chunks), 200,
            { <<"Content-Type", "application/xml;charset=utf8">>,
              <<"Cache-Control", "no-cache, no-store, must-revalidate">>,
              <<"Pragma", "no-cache">>,
              <<"Expires", "0">> })
       /\ ~ Did(t, "company_ok") /\ ~ Did(t, "company_failed")
       /\ trace[t].compared = Nothing

\* C7: a POST with valid credentials, a known company and a webtoken signed
\* with that company's key whose user claim is the Basic-auth username, whose
\* importer does not raise, constructs the importer with (database, company,
\* mode), runs it once and is answered 200 text/plain with the cache-disabling
\* headers and the importer's result as body.
C7_PostImported ==
  \A t \in Threads :
    ( /\ request[t].method = "POST"
      /\ pc[t] = "returned"
      /\ OwnCredentialsValid(t, request[t].database)
      /\ KnownCompanyName(request[t].company)
      /\ OwnWebtokenValid(t)
      /\ trace[t].raised = "" )
    => /\ worker[t].kind = "importer"
       /\ worker[t].runs = 1
       /\ worker[t].database = request[t].database
       /\ worker[t].company # Nothing
       /\ worker[t].company[1].name = request[t].company
       /\ worker[t].mode = import_mode(request[t].mode)
       /\ response[t] = Response(worker[t].text, 200,
            { <<"Content-Type", "text/plain">>,
              <<"Cache-Control", "no-cache, no-store, must-revalidate">>,
              <<"Pragma", "no-cache">>,
              <<"Expires", "0">> })

\* C8: when the exporter or importer raises while constructed or run, or the
\* GET mode is no integer, xml() raises a 500 whose description is the fixed
\* text of its method, and the last log entry is an error carrying the
\* exception; a 500 is raised in no other case.
C8_FailureIsGeneric500 ==
  \A t \in Threads :
    /\ trace[t].raised # "" =>
         /\ pc[t] = "returned"
         /\ response[t].kind = "raised"
         /\ response[t].status = 500
         /\ response[t].headers = {}
         /\ response[t].body =
              IF request[t].method = "GET"
              THEN "Error generating frePPLe XML data: check the Odoo log file for more details"
              ELSE "Error processing data posted by frePPLe: check the Odoo log file for more details"
         /\ log[t] # <<>>
         /\ log[t][Len(log[t])].level = "error"
         /\ log[t][Len(log[t])].exc = trace[t].raised
    /\ response[t].status = 500 => trace[t].raised # ""

\* A GET whose mode is not an integer ended in the 500.
C8_Witness ==
  \E t \in Threads :
    /\ request[t].method = "GET"
    /\ request[t].mode = Some(<<"x">>)
    /\ trace[t].raised = "ValueError: invalid literal for int()"
    /\ response[t].status = 500
    /\ worker[t].kind = "none"

\* C9: a request with a method other than GET and POST raises 405 and does
\* nothing else: no header is parsed, no login attempted, no company looked
\* up, nothing logged, no exporter or importer constructed.
C9_OtherMethodRejected ==
  \A t \in Threads :
    (pc[t] # "idle" /\ request[t].method \notin {"GET", "POST"})
    => /\ pc[t] = "returned"
       /\ response[t].kind = "raised"
       /\ response[t].status = 405
       /\ trace[t] = NoTrace
       /\ frame[t] = NoFrame
       /\ session[t] = NoSession
       /\ worker[t] = NoWorker
       /\ log[t] = <<>>

\* A PUT was answered 405.
C9_Witness ==
  \E t \in Threads :
    /\ request[t].method = "PUT"
    /\ pc[t] = "returned"
    /\ response[t].status = 405

\* The checks of a request in order, the language override left out.
ChecksDone(t) == SelectSeq(trace[t].events, LAMBDA e : e # "language")

\* The orders of checks a GET and a POST can have gone through.
GetOrders ==
  { <<>>, <<"auth_failed">>, <<"auth_ok">>, <<"auth_ok", "exporter">> }

PostOrders ==
  { <<>>, <<"auth_failed">>, <<"auth_ok">>,
    <<"auth_ok", "company_failed">>, <<"auth_ok", "company_ok">>,
    <<"auth_ok", "company_ok", "webtoken_failed">>,
    <<"auth_ok", "company_ok", "webtoken_ok">>,
    <<"auth_ok", "company_ok", "webtoken_ok", "importer">> }

\* C10: the checks of a request run in a fixed order and each gates the next:
\* authentication, then for a POST company and webtoken, then the exporter or
\* importer; the language is written to the session only by a login that was
\* accepted; the first check that fails gives the response.
C10_ChecksInOrder ==
  \A t \in Threads :
    LET events == trace[t].events
        checks == ChecksDone(t)
        last   == IF checks = <<>> THEN "" ELSE checks[Len(checks)]
    IN
    /\ request[t].method = "GET" => checks \in GetOrders
    /\ request[t].method = "POST" => checks \in PostOrders
    /\ \A i \in DOMAIN events :
         events[i] = "language" => i > 1 /\ events[i - 1] = "auth_ok"
    /\ session[t].lang # None => session[t].uid # 0 /\ Did(t, "auth_ok")
    /\ worker[t].kind = "exporter" => session[t].uid # 0
    /\ worker[t].kind = "importer" =>
         /\ session[t].uid # 0
         /\ frame[t].company # Nothing
         /\ trace[t].compared # Nothing
    /\ Did(t, "auth_ok") <=> session[t].uid # 0
    /\ Did(t, "company_ok") => frame[t].company # Nothing
    /\ last = "auth_failed" <=> response[t] = LoginChallenge
    /\ last = "company_failed" <=>
         response[t] = Response("Invalid company name argument", 401, {})
    /\ last = "webtoken_failed" <=>
         response[t] = Response("Incorrect or missing webtoken", 401, {})
    /\ last \in {"auth_failed", "company_failed", "webtoken_failed"} =>
         pc[t] = "returned" /\ worker[t].kind = "none"

\* A POST with a language override went through the three checks and ran the
\* importer.
C10_Witness ==
  \E t \in Threads :
    /\ request[t].method = "POST"
    /\ trace[t].events =
         <<"auth_ok", "language", "company_ok", "webtoken_ok", "importer">>
    /\ session[t].lang = "fr"
    /\ worker[t].runs = 1
    /\ response[t].status = 200

\* What a finished delete_view request did.
Returned(w) == view_pc[w] = "returned"

Range(seq) == { seq[i] : i \in 1..Len(seq) }

Deleted(w) == "delete" \in Range(view_trace[w].committed)

ConfirmingPost(w) ==
  view_request[w].method = "POST" /\ view_request[w].POST # {}

\* The conditions the claim puts on a delete.
MayDelete(w) ==
  /\ ConfirmingPost(w)
  /\ has_delete_permission(view_request[w].user)
  /\ view_trace[w].existed
  /\ view_obj[w] # Nothing
  /\ get_deleted_objects(view_obj[w][1], view_request[w].user,
                         view_request[w].database).perms_needed = {}

\* The LogEntry rows of the request's database that are DELETION entries of
\* the request's user for the request's object.
OwnLogEntries(w) ==
  { i \in 1..Len(logentries[view_request[w].database]) :
      logentries[view_request[w].database][i] =
        DeletionLogEntry(view_request[w].user, view_request[w].object_id,
                         force_unicode(view_request[w].object_id)) }

\* The request logged once, then deleted, and both are in request.database.
LoggedOnceBeforeDelete(w) ==
  /\ view_trace[w].committed = <<"log", "delete">>
  /\ OwnLogEntries(w) # {}
  /\ view_request[w].object_id \notin objects[view_request[w].database]

\* The response is the redirect to the third-from-last breadcrumb.
RedirectsToCrumb(w) ==
  /\ view_response[w].kind = "redirect"
  /\ view_request[w].crumbs # Nothing
  /\ Len(view_request[w].crumbs[1]) >= 3
  /\ view_response[w].location =
       view_request[w].crumbs[1][Len(view_request[w].crumbs[1]) - 2][3]

\* The three refusals of the claim's last sentence.
Refused(w) ==
  \/ view_request[w].method # "POST"
  \/ view_response[w].what = "Http404"
  \/ view_response[w].what = "PermissionDenied"

\* C11: in delete_view the object is deleted only when the request is a
\* confirming POST, has_delete_permission is true, the object exists in
\* request.database and perms_needed is empty; whenever it is deleted,
\* exactly one DELETION log entry for it was saved to request.database before
\* the delete and the response redirects to the third-from-last breadcrumb;
\* a non-POST request, a 404 or a PermissionDenied writes no log entry and
\* deletes nothing.
C11_DeleteView ==
  \A w \in Workers :
    Returned(w) =>
      /\ Deleted(w) => MayDelete(w)
      /\ Deleted(w) => LoggedOnceBeforeDelete(w) /\ RedirectsToCrumb(w)
      /\ Refused(w) => view_trace[w].writes = <<>> /\ view_trace[w].committed = <<>>

\* The parts of C11 without the redirect: they hold.
DeleteIsGuardedAndLogged ==
  \A w \in Workers :
    Returned(w) =>
      /\ Deleted(w) => MayDelete(w) /\ LoggedOnceBeforeDelete(w)
      /\ Refused(w) => view_trace[w].writes = <<>> /\ view_trace[w].committed = <<>>

\* On the managed database a delete is always answered by the redirect.
ManagedDeleteRedirects ==
  \A w \in Workers :
    Returned(w) /\ Deleted(w) /\ view_request[w].database = ManagedDatabase
      => RedirectsToCrumb(w)

\* A delete that is in the database and was answered by an exception.
DeletedWithoutRedirect ==
  \E w \in Workers :
    Returned(w) /\ Deleted(w) /\ view_response[w].kind = "raised"

====
